---- MODULE Spec2Model ----
(***************************************************************************)
(* Model of app/dockerdwrapperwithcompose.c: the supervisor of one dockerd *)
(* process.  The main thread runs main(), the GLib main loop and the       *)
(* callbacks the loop dispatches (child exit, parameter changed); the      *)
(* termination-signal handler handle_signals runs asynchronously and can   *)
(* interleave with every step of the main thread.  The environment is the  *)
(* dockerd processes, the parameter store and the file system.             *)
(***************************************************************************)
EXTENDS Integers, Sequences, FiniteSets, TLC

\* Number of parameter writes the parameter store delivers in one run.
MaxChanges == 2

\* static pid_t dockerd_process_pid = -1: no dockerd process is tracked.
NoPid == -1

\* Every start is the initial one or follows a handled parameter change.
Pids == 1..(MaxChanges + 1)

ax_parameters == <<"IPCSocket", "SDCardSupport", "UseTLS">>

tls_cert_path == "/usr/local/packages/dockerdwrapperwithcompose/"

tls_certs == <<"ca.pem", "server-cert.pem", "server-key.pem">>

dockerd_path_on_sd_card == "/var/spool/storage/SD_DISK/dockerd"

ParamNames == {ax_parameters[i] : i \in 1..Len(ax_parameters)}

CertNames == {tls_certs[i] : i \in 1..Len(tls_certs)}

\* What the file system answers to setup_sdcard and to access() on the three
\* certificate files.
FsTypes == {"NULL", "ext4", "vfat", "exfat"}

Envs ==
  [certs : SUBSET CertNames, mkdir_ok : BOOLEAN, fs : FsTypes, writable : BOOLEAN]

\* The file systems the supervisor's whole life is explored on: everything
\* in place, one certificate file missing, an SD card that is vfat or exfat.
GoodEnv == [certs |-> CertNames, mkdir_ok |-> TRUE, fs |-> "ext4", writable |-> TRUE]

MainEnvs ==
  {GoodEnv}
    \cup {[GoodEnv EXCEPT !.certs = CertNames \ {c}] : c \in CertNames}
    \cup {[GoodEnv EXCEPT !.fs = f] : f \in {"vfat", "exfat"}}

VARIABLES
  pc,                   \* position of the main thread
  caller,               \* who called stop_dockerd: "param", "main" or "none"
  loop,                 \* static GMainLoop *loop: "NULL" or "created"
  is_running,           \* loop->is_running
  ready,                \* sources the current loop iteration still dispatches
  exit_code,
  dockerd_process_pid,
  restart_dockerd,
  killed,               \* stop_dockerd's local and return value
  procs,                \* the dockerd processes spawned so far
  watched,              \* pids with a child watch not yet dispatched
  params,               \* the parameter store
  queue,                \* number of parameter-changed notifications not yet dispatched
  env,                  \* the file system
  args,                 \* argument vector of the latest g_spawn_async call
  h                     \* history of the run, read only by the properties

vars ==
  <<pc, caller, loop, is_running, ready, exit_code, dockerd_process_pid,
    restart_dockerd, killed, procs, watched, params, queue, env, args, h>>


(***************************************************************************)
(* Settings resolution: read_settings and what it calls.                   *)
(***************************************************************************)

\* is_parameter_yes: value && strcmp(value, "yes") == 0
is_parameter_yes(name) == params[name] = "yes"

\* setup_sdcard: mkdir -p, file system known and not vfat/exfat, writable.
setup_sdcard ==
  /\ env.mkdir_ok
  /\ env.fs # "NULL"
  /\ ~(env.fs = "vfat" \/ env.fs = "exfat")
  /\ env.writable

get_and_verify_sd_card_selection ==
  IF is_parameter_yes("SDCardSupport")
  THEN [ok |-> setup_sdcard, data_root |-> dockerd_path_on_sd_card \o "/data"]
  ELSE [ok |-> TRUE, data_root |-> "NULL"]

\* access(path, F_OK) == 0 on tls_cert_path + tls_certs[i]
cert_exists(i) == tls_certs[i] \in env.certs

\* As get_and_verify_tls_selection, but never selecting TLS.
get_and_verify_tls_selection_ignored == [ok |-> TRUE, use_tls |-> FALSE]

\* As get_and_verify_tls_selection, but falling back to no TLS when a
\* certificate file is missing.
get_and_verify_tls_selection_fallback ==
  [ok |-> TRUE,
   use_tls |-> is_parameter_yes("UseTLS") /\ \A i \in 1..Len(tls_certs) : cert_exists(i)]

get_and_verify_tls_selection ==
  LET use_tls == is_parameter_yes("UseTLS")
      ca_exists == cert_exists(1)
      cert_exists_ == cert_exists(2)
      key_exists == cert_exists(3)
  IN IF use_tls /\ (~ca_exists \/ ~cert_exists_ \/ ~key_exists)
     THEN [ok |-> FALSE, use_tls |-> FALSE]
     ELSE [ok |-> TRUE, use_tls |-> use_tls]

get_ipc_socket_selection ==
  [ok |-> TRUE, use_ipc_socket |-> is_parameter_yes("IPCSocket")]

\* struct settings settings = {0}; the three selections in order, each
\* failure returning at once.
read_settings ==
  LET sd == get_and_verify_sd_card_selection
      tls == get_and_verify_tls_selection
      ipc == get_ipc_socket_selection
  IN IF ~sd.ok
     THEN [ok |-> FALSE,
           settings |-> [data_root |-> sd.data_root, use_tls |-> FALSE,
                         use_ipc_socket |-> FALSE]]
     ELSE IF ~tls.ok
     THEN [ok |-> FALSE,
           settings |-> [data_root |-> sd.data_root, use_tls |-> FALSE,
                         use_ipc_socket |-> FALSE]]
     ELSE [ok |-> ipc.ok,
           settings |-> [data_root |-> sd.data_root, use_tls |-> tls.use_tls,
                         use_ipc_socket |-> ipc.use_ipc_socket]]

(***************************************************************************)
(* The argument vector start_dockerd builds: the g_snprintf pieces, split  *)
(* at the spaces by g_strsplit.                                            *)
(***************************************************************************)

args_base ==
  <<"dockerd", "--config-file",
    "/usr/local/packages/dockerdwrapperwithcompose/localdata/daemon.json">>

args_tls ==
  <<"-H", "tcp://0.0.0.0:2376", "--tlsverify",
    "--tlscacert", "/usr/local/packages/dockerdwrapperwithcompose/ca.pem",
    "--tlscert", "/usr/local/packages/dockerdwrapperwithcompose/server-cert.pem",
    "--tlskey", "/usr/local/packages/dockerdwrapperwithcompose/server-key.pem">>

args_no_tls == <<"-H", "tcp://0.0.0.0:2375", "--tls=false">>

args_data_root(data_root) == <<"--data-root", data_root>>

args_ipc_socket == <<"-H", "unix:///var/run/docker.sock">>

\* As dockerd_args, but with the unix socket ahead of the data root.
dockerd_args_socket_first(settings) ==
  args_base
    \o (IF settings.use_tls THEN args_tls ELSE args_no_tls)
    \o (IF settings.use_ipc_socket THEN args_ipc_socket ELSE <<>>)
    \o (IF settings.data_root # "NULL"
        THEN args_data_root(settings.data_root) ELSE <<>>)

dockerd_args(settings) ==
  args_base
    \o (IF settings.use_tls THEN args_tls ELSE args_no_tls)
    \o (IF settings.data_root # "NULL"
        THEN args_data_root(settings.data_root) ELSE <<>>)
    \o (IF settings.use_ipc_socket THEN args_ipc_socket ELSE <<>>)


(***************************************************************************)
(* Processes and signals.                                                  *)
(***************************************************************************)

\* A dockerd process is unborn, alive, a zombie (exited, exit status not yet
\* collected) or reaped (exit status collected by waitpid).  status is the
\* exit status: "ok" passes g_spawn_check_exit_status, "err" does not.
Unborn == [st |-> "unborn", status |-> "none"]

NumSpawned == Cardinality({p \in Pids : procs[p].st # "unborn"})

Alive == {p \in Pids : procs[p].st = "alive"}

\* kill(pid, sig) == 0: the pid names a process of ours that still exists.
kill_ok(pid) == procs[pid].st \in {"alive", "zombie"}

\* As g_main_loop_quit, but leaving the loop running.
g_main_loop_quit_lost(l, running) == running

\* g_main_loop_quit(loop): g_return_if_fail(loop != NULL), then is_running
\* = FALSE.  The value of loop->is_running after the call.
g_main_loop_quit(l, running) == IF l = "NULL" THEN running ELSE FALSE

\* The watched pids whose child watch is ready to be dispatched.
ExitedWatched == {p \in watched : procs[p].st \in {"zombie", "reaped"}}

\* The sources of the main context that are ready.
ReadySources ==
  (IF ExitedWatched # {} THEN {"child"} ELSE {})
    \cup (IF queue > 0 THEN {"param"} ELSE {})

\* The outcomes of g_spawn_async followed by is_process_alive.
StartOutcomes == {"spawn_failed", "died", "alive"}

\* As start_dockerd, but not storing the pid of a child found alive.
start_dockerd_untracked(settings, o, st) ==
  LET new == 1 + Cardinality({p \in Pids : st.procs[p].st # "unborn"})
  IN IF o = "spawn_failed"
     THEN [ok |-> FALSE] @@ st
     ELSE IF o = "died"
     THEN [ok |-> FALSE,
           pid |-> new,
           procs |-> [st.procs EXCEPT ![new] = [st |-> "reaped", status |-> "none"]],
           watched |-> st.watched \cup {new},
           exit_code |-> -1,
           is_running |-> g_main_loop_quit(loop, st.is_running)]
     ELSE [ok |-> TRUE,
           pid |-> st.pid,
           procs |-> [st.procs EXCEPT ![new] = [st |-> "alive", status |-> "none"]],
           watched |-> st.watched \cup {new},
           exit_code |-> st.exit_code,
           is_running |-> st.is_running]

\* start_dockerd(settings) on the state st = [pid, procs, watched,
\* exit_code, is_running], with outcome o of the spawn.
start_dockerd(settings, o, st) ==
  LET new == 1 + Cardinality({p \in Pids : st.procs[p].st # "unborn"})
  IN IF o = "spawn_failed"
     THEN [ok |-> FALSE] @@ st
     ELSE IF o = "died"
     THEN \* waitpid(pid, WNOHANG) in is_process_alive collected the status
          [ok |-> FALSE,
           pid |-> new,
           procs |-> [st.procs EXCEPT ![new] = [st |-> "reaped", status |-> "none"]],
           watched |-> st.watched \cup {new},
           exit_code |-> -1,
           is_running |-> g_main_loop_quit(loop, st.is_running)]
     ELSE [ok |-> TRUE,
           pid |-> new,
           procs |-> [st.procs EXCEPT ![new] = [st |-> "alive", status |-> "none"]],
           watched |-> st.watched \cup {new},
           exit_code |-> st.exit_code,
           is_running |-> st.is_running]

\* bool success = read_settings(&settings) && start_dockerd(&settings)
read_settings_and_start_dockerd(o, st) ==
  LET rs == read_settings
  IN IF rs.ok
     THEN [args |-> dockerd_args(rs.settings)] @@ start_dockerd(rs.settings, o, st)
     ELSE [ok |-> FALSE, args |-> args] @@ st


(***************************************************************************)
(* The state after init_signals() in main: handle_signals is installed,    *)
(* nothing else has run.                                                   *)
(***************************************************************************)

NoMark == [set |-> FALSE, spawned |-> 0, stops |-> 0]

\* What the latest read_settings_and_start_dockerd did.
StartResult(rs_ok, o) == IF rs_ok THEN o ELSE "settings_failed"

H0 ==
  [sigReceived |-> FALSE,   \* a termination signal was handled
   nChanges |-> 0,          \* parameter writes so far
   stopLog |-> <<>>,        \* signals the current stop_dockerd call has sent
   timedOut |-> FALSE,      \* its sleep(10) ran the full ten seconds
   exitedInWait |-> FALSE,  \* the tracked process exited during its sleep
   failed |-> FALSE,        \* the program has met a failure
   lastStart |-> "none",    \* outcome of the latest start attempt
   sigMark |-> NoMark,      \* a signal arrived during a restart's wait:
                            \* processes spawned until then, stops begun since
   crashMark |-> NoMark]    \* an abnormal exit was handled with no restart

InitIn(E) ==
  /\ pc = "setup_axparameter"
  /\ caller = "none"
  /\ loop = "NULL"
  /\ is_running = FALSE
  /\ ready = {}
  /\ exit_code = 0
  /\ dockerd_process_pid = NoPid
  /\ restart_dockerd = FALSE
  /\ killed = FALSE
  /\ procs = [p \in Pids |-> Unborn]
  /\ watched = {}
  /\ params \in [ParamNames -> {"yes", "no"}]
  /\ queue = 0
  /\ env \in E
  /\ args = <<>>
  /\ h = H0

Init == InitIn(MainEnvs)

(***************************************************************************)
(* main, up to the event loop.                                             *)
(***************************************************************************)

\* ax_parameter = setup_axparameter(); NULL is fatal.
main_setup_axparameter ==
  /\ pc = "setup_axparameter"
  /\ \E ok \in BOOLEAN :
       IF ok
       THEN /\ pc' = "loop_new"
            /\ UNCHANGED <<exit_code, h>>
       ELSE /\ pc' = "end"
            /\ exit_code' = -1
            /\ h' = [h EXCEPT !.failed = TRUE]
  /\ UNCHANGED <<caller, loop, is_running, ready, dockerd_process_pid,
                 restart_dockerd, killed, procs, watched, params, queue, env, args>>

\* loop = g_main_loop_new(NULL, FALSE)
main_loop_new ==
  /\ pc = "loop_new"
  /\ loop' = "created"
  /\ is_running' = FALSE
  /\ pc' = "start"
  /\ UNCHANGED <<caller, ready, exit_code, dockerd_process_pid, restart_dockerd,
                 killed, procs, watched, params, queue, env, args, h>>

\* As main_start, but entering the loop also when the start failed.
main_start_goes_on ==
  /\ pc = "start"
  /\ \E o \in StartOutcomes :
       LET r == read_settings_and_start_dockerd(o,
                  [pid |-> dockerd_process_pid, procs |-> procs,
                   watched |-> watched, exit_code |-> exit_code,
                   is_running |-> is_running])
       IN /\ dockerd_process_pid' = r.pid
          /\ procs' = r.procs
          /\ watched' = r.watched
          /\ args' = r.args
          /\ is_running' = r.is_running
          /\ exit_code' = IF r.ok THEN r.exit_code ELSE -1
          /\ pc' = "loop_run"
          /\ h' = [h EXCEPT !.failed = @ \/ ~r.ok,
                            !.lastStart = StartResult(read_settings.ok, o)]
  /\ UNCHANGED <<caller, loop, ready, restart_dockerd, killed, params, queue, env>>

\* if (!read_settings_and_start_dockerd()) { exit_code = -1; goto end; }
main_start ==
  /\ pc = "start"
  /\ \E o \in StartOutcomes :
       LET r == read_settings_and_start_dockerd(o,
                  [pid |-> dockerd_process_pid, procs |-> procs,
                   watched |-> watched, exit_code |-> exit_code,
                   is_running |-> is_running])
       IN /\ dockerd_process_pid' = r.pid
          /\ procs' = r.procs
          /\ watched' = r.watched
          /\ args' = r.args
          /\ is_running' = r.is_running
          /\ exit_code' = IF r.ok THEN r.exit_code ELSE -1
          /\ pc' = IF r.ok THEN "loop_run" ELSE "end"
          /\ h' = [h EXCEPT !.failed = @ \/ ~r.ok,
                            !.lastStart = StartResult(read_settings.ok, o)]
  /\ UNCHANGED <<caller, loop, ready, restart_dockerd, killed, params, queue, env>>

(***************************************************************************)
(* The GLib main loop: g_main_loop_run sets is_running and iterates while  *)
(* it is set; one iteration dispatches the sources found ready.            *)
(***************************************************************************)

main_loop_run ==
  /\ pc = "loop_run"
  /\ is_running' = TRUE
  /\ pc' = "poll"
  /\ UNCHANGED <<caller, loop, ready, exit_code, dockerd_process_pid,
                 restart_dockerd, killed, procs, watched, params, queue, env, args, h>>

loop_check ==
  /\ pc = "poll"
  /\ is_running
  /\ \E S \in (SUBSET ReadySources) \ {{}} : ready' = S
  /\ pc' = "dispatch"
  /\ UNCHANGED <<caller, loop, is_running, exit_code, dockerd_process_pid,
                 restart_dockerd, killed, procs, watched, params, queue, env, args, h>>

loop_dispatch ==
  /\ pc = "dispatch"
  /\ \E s \in ready :
       /\ ready' = ready \ {s}
       /\ pc' = IF s = "child" THEN "exit_cb" ELSE "param_cb"
  /\ UNCHANGED <<caller, loop, is_running, exit_code, dockerd_process_pid,
                 restart_dockerd, killed, procs, watched, params, queue, env, args, h>>

loop_dispatch_done ==
  /\ pc = "dispatch"
  /\ ready = {}
  /\ pc' = "poll"
  /\ UNCHANGED <<caller, loop, is_running, ready, exit_code, dockerd_process_pid,
                 restart_dockerd, killed, procs, watched, params, queue, env, args, h>>

\* As main_loop_exit, but not waiting for a request to quit.
main_loop_exit_unrequested ==
  /\ pc = "poll"
  /\ pc' = "end"
  /\ UNCHANGED <<caller, loop, is_running, ready, exit_code, dockerd_process_pid,
                 restart_dockerd, killed, procs, watched, params, queue, env, args, h>>

\* g_main_loop_run returns; g_main_loop_unref(loop); control reaches end:
main_loop_exit ==
  /\ pc = "poll"
  /\ ~is_running
  /\ pc' = "end"
  /\ UNCHANGED <<caller, loop, is_running, ready, exit_code, dockerd_process_pid,
                 restart_dockerd, killed, procs, watched, params, queue, env, args, h>>


(***************************************************************************)
(* The callbacks the loop dispatches.                                      *)
(***************************************************************************)

\* As exit_code_after_status, but recording a failure for every exit.
exit_code_after_status_any(status, code) == -1

\* As exit_code_after_status, but not recording the abnormal exit.
exit_code_after_status_ignored(status, code) == code

\* if (!g_spawn_check_exit_status(status, &error)) exit_code = -1;
exit_code_after_status(status, code) == IF status = "err" THEN -1 ELSE code

\* As dockerd_process_exited_callback, but leaving the restart flag set.
dockerd_process_exited_callback_keeps_flag ==
  /\ pc = "exit_cb"
  /\ \E p \in ExitedWatched, o \in StartOutcomes :
       LET abnormal == procs[p].status = "err"
           st1 == [pid |-> NoPid,
                   procs |-> [procs EXCEPT ![p] = [st |-> "reaped", status |-> "none"]],
                   watched |-> watched \ {p},
                   exit_code |-> exit_code_after_status(procs[p].status, exit_code),
                   is_running |-> is_running]
           r == read_settings_and_start_dockerd(o, st1)
           h1 == [h EXCEPT !.failed = @ \/ abnormal]
       IN IF restart_dockerd
          THEN /\ restart_dockerd' = restart_dockerd
               /\ dockerd_process_pid' = r.pid
               /\ procs' = r.procs
               /\ watched' = r.watched
               /\ args' = r.args
               /\ exit_code' = IF r.ok THEN r.exit_code ELSE -1
               /\ is_running' =
                    IF r.ok THEN r.is_running
                    ELSE g_main_loop_quit(loop, r.is_running)
               /\ h' = [h1 EXCEPT !.failed = @ \/ ~r.ok,
                                   !.lastStart = StartResult(read_settings.ok, o)]
          ELSE /\ dockerd_process_pid' = st1.pid
               /\ procs' = st1.procs
               /\ watched' = st1.watched
               /\ exit_code' = st1.exit_code
               /\ is_running' = g_main_loop_quit(loop, is_running)
               /\ h' = IF abnormal /\ ~h.crashMark.set
                       THEN [h1 EXCEPT !.crashMark =
                               [set |-> TRUE, spawned |-> NumSpawned, stops |-> 0]]
                       ELSE h1
               /\ UNCHANGED <<restart_dockerd, args>>
  /\ pc' = "dispatch"
  /\ UNCHANGED <<caller, loop, ready, killed, params, queue, env>>

\* The whole child-exit callback, the restart it may perform included.
dockerd_process_exited_callback ==
  /\ pc = "exit_cb"
  /\ \E p \in ExitedWatched, o \in StartOutcomes :
       LET abnormal == procs[p].status = "err"
           st1 == [pid |-> NoPid,
                   procs |-> [procs EXCEPT ![p] = [st |-> "reaped", status |-> "none"]],
                   watched |-> watched \ {p},
                   exit_code |-> exit_code_after_status(procs[p].status, exit_code),
                   is_running |-> is_running]
           r == read_settings_and_start_dockerd(o, st1)
           h1 == [h EXCEPT !.failed = @ \/ abnormal]
       IN IF restart_dockerd
          THEN /\ restart_dockerd' = FALSE
               /\ dockerd_process_pid' = r.pid
               /\ procs' = r.procs
               /\ watched' = r.watched
               /\ args' = r.args
               /\ exit_code' = IF r.ok THEN r.exit_code ELSE -1
               /\ is_running' =
                    IF r.ok THEN r.is_running
                    ELSE g_main_loop_quit(loop, r.is_running)
               /\ h' = [h1 EXCEPT !.failed = @ \/ ~r.ok,
                                   !.lastStart = StartResult(read_settings.ok, o)]
          ELSE /\ dockerd_process_pid' = st1.pid
               /\ procs' = st1.procs
               /\ watched' = st1.watched
               /\ exit_code' = st1.exit_code
               /\ is_running' = g_main_loop_quit(loop, is_running)
               /\ h' = IF abnormal /\ ~h.crashMark.set
                       THEN [h1 EXCEPT !.crashMark =
                               [set |-> TRUE, spawned |-> NumSpawned, stops |-> 0]]
                       ELSE h1
               /\ UNCHANGED <<restart_dockerd, args>>
  /\ pc' = "dispatch"
  /\ UNCHANGED <<caller, loop, ready, killed, params, queue, env>>

\* parameter_changed_callback up to its call of stop_dockerd.
parameter_changed_callback ==
  /\ pc = "param_cb"
  /\ queue > 0
  /\ \E parname \in ParamNames :
       restart_dockerd' =
         (restart_dockerd
            \/ \E i \in 1..Len(ax_parameters) : parname = ax_parameters[i])
  /\ queue' = queue - 1
  /\ caller' = "param"
  /\ pc' = "stop_dockerd"
  /\ UNCHANGED <<loop, is_running, ready, exit_code, dockerd_process_pid, killed,
                 procs, watched, params, env, args, h>>

\* As parameter_changed_callback_return, but starting the new daemon at once
\* instead of leaving the restart to the child-exit callback.
parameter_changed_callback_return_restarts ==
  /\ pc = "stop_ret"
  /\ caller = "param"
  /\ \E o \in StartOutcomes :
       LET r == read_settings_and_start_dockerd(o,
                  [pid |-> dockerd_process_pid, procs |-> procs,
                   watched |-> watched,
                   exit_code |-> IF killed THEN exit_code ELSE -1,
                   is_running |-> is_running])
       IN /\ dockerd_process_pid' = r.pid
          /\ procs' = r.procs
          /\ watched' = r.watched
          /\ args' = r.args
          /\ is_running' = r.is_running
          /\ exit_code' = r.exit_code
          /\ h' = [h EXCEPT !.failed = @ \/ ~killed \/ r.exit_code = -1,
                            !.lastStart = StartResult(read_settings.ok, o),
                            !.stopLog = <<>>, !.timedOut = FALSE,
                            !.exitedInWait = FALSE]
  /\ killed' = FALSE
  /\ caller' = "none"
  /\ pc' = "dispatch"
  /\ UNCHANGED <<loop, ready, restart_dockerd, params, queue, env>>

\* As parameter_changed_callback_return, but taking the exit code from the
\* result of this stop alone.
parameter_changed_callback_return_resets ==
  /\ pc = "stop_ret"
  /\ caller = "param"
  /\ exit_code' = IF killed THEN 0 ELSE -1
  /\ h' = [h EXCEPT !.failed = @ \/ ~killed,
                    !.stopLog = <<>>, !.timedOut = FALSE, !.exitedInWait = FALSE]
  /\ killed' = FALSE
  /\ caller' = "none"
  /\ pc' = "dispatch"
  /\ UNCHANGED <<loop, is_running, ready, dockerd_process_pid, restart_dockerd,
                 procs, watched, params, queue, env, args>>

\* if (!stop_dockerd()) { ...; exit_code = -1; }
parameter_changed_callback_return ==
  /\ pc = "stop_ret"
  /\ caller = "param"
  /\ exit_code' = IF killed THEN exit_code ELSE -1
  /\ h' = [h EXCEPT !.failed = @ \/ ~killed,
                    !.stopLog = <<>>, !.timedOut = FALSE, !.exitedInWait = FALSE]
  /\ killed' = FALSE
  /\ caller' = "none"
  /\ pc' = "dispatch"
  /\ UNCHANGED <<loop, is_running, ready, dockerd_process_pid, restart_dockerd,
                 procs, watched, params, queue, env, args>>

(***************************************************************************)
(* stop_dockerd: SIGTERM, sleep(10), SIGKILL.                              *)
(***************************************************************************)

\* As stop_dockerd, but without the early return when no pid is tracked.
stop_dockerd_unchecked ==
  /\ pc = "stop_dockerd"
  /\ killed' = FALSE
  /\ pc' = "sleep"
  /\ h' = [h EXCEPT !.stopLog =
                      <<[sig |-> "SIGTERM",
                         ok |-> dockerd_process_pid # NoPid
                                  /\ kill_ok(dockerd_process_pid)]>>,
                    !.timedOut = FALSE, !.exitedInWait = FALSE,
                    !.sigMark.stops = IF h.sigMark.set THEN @ + 1 ELSE @]
  /\ UNCHANGED <<caller, loop, is_running, ready, exit_code, dockerd_process_pid,
                 restart_dockerd, procs, watched, params, queue, env, args>>

\* From the entry to sleep(10), or to the return when no pid is tracked.
stop_dockerd ==
  /\ pc = "stop_dockerd"
  /\ IF dockerd_process_pid = NoPid
     THEN /\ killed' = TRUE
          /\ pc' = "stop_ret"
          /\ h' = [h EXCEPT !.stopLog = <<>>, !.timedOut = FALSE,
                            !.exitedInWait = FALSE]
     ELSE /\ killed' = FALSE
          /\ pc' = "sleep"
          /\ h' = [h EXCEPT !.stopLog =
                              <<[sig |-> "SIGTERM", ok |-> kill_ok(dockerd_process_pid)]>>,
                            !.timedOut = FALSE, !.exitedInWait = FALSE,
                            !.sigMark.stops = IF h.sigMark.set THEN @ + 1 ELSE @]
  /\ UNCHANGED <<caller, loop, is_running, ready, exit_code, dockerd_process_pid,
                 restart_dockerd, procs, watched, params, queue, env, args>>

\* sleep(10) returns 0: the ten seconds have passed.
stop_dockerd_sleep_timeout ==
  /\ pc = "sleep"
  /\ pc' = "after_sleep"
  /\ h' = [h EXCEPT !.timedOut = TRUE]
  /\ UNCHANGED <<caller, loop, is_running, ready, exit_code, dockerd_process_pid,
                 restart_dockerd, killed, procs, watched, params, queue, env, args>>

\* From the return of sleep(10) to the return of stop_dockerd.
stop_dockerd_after_sleep ==
  /\ pc = "after_sleep"
  /\ IF dockerd_process_pid = NoPid
     THEN /\ killed' = TRUE
          /\ h' = h
     ELSE /\ killed' = kill_ok(dockerd_process_pid)
          /\ h' = [h EXCEPT !.stopLog =
                     Append(@, [sig |-> "SIGKILL", ok |-> kill_ok(dockerd_process_pid)])]
  /\ pc' = "stop_ret"
  /\ UNCHANGED <<caller, loop, is_running, ready, exit_code, dockerd_process_pid,
                 restart_dockerd, procs, watched, params, queue, env, args>>

(***************************************************************************)
(* main, from the end label.                                               *)
(***************************************************************************)

\* As main_end, but returning without the final stop_dockerd.
main_end_skips_stop ==
  /\ pc = "end"
  /\ caller' = "main"
  /\ killed' = TRUE
  /\ pc' = "stop_ret"
  /\ UNCHANGED <<loop, is_running, ready, exit_code, dockerd_process_pid,
                 restart_dockerd, procs, watched, params, queue, env, args, h>>

\* end: if (stop_dockerd()) ...
main_end ==
  /\ pc = "end"
  /\ caller' = "main"
  /\ pc' = "stop_dockerd"
  /\ UNCHANGED <<loop, is_running, ready, exit_code, dockerd_process_pid,
                 restart_dockerd, killed, procs, watched, params, queue, env, args, h>>

\* The callbacks are unregistered and main returns exit_code.
main_return ==
  /\ pc = "stop_ret"
  /\ caller = "main"
  /\ pc' = "done"
  /\ UNCHANGED <<caller, loop, is_running, ready, exit_code, dockerd_process_pid,
                 restart_dockerd, killed, procs, watched, params, queue, env, args, h>>

(***************************************************************************)
(* The termination-signal handler, which interrupts the main thread at any *)
(* point, and the environment.                                             *)
(***************************************************************************)

\* SIGINT, SIGTERM or SIGQUIT: g_main_loop_quit(loop).  sa_flags = 0 and a
\* sleep() never restarts, so a sleep(10) in progress returns early.
handle_signals ==
  /\ pc # "done"
  /\ is_running' = g_main_loop_quit(loop, is_running)
  /\ pc' = IF pc = "sleep" THEN "after_sleep" ELSE pc
  /\ h' = [h EXCEPT !.sigReceived = TRUE,
                    !.sigMark =
                      IF pc = "sleep" /\ caller = "param" /\ restart_dockerd /\ ~@.set
                      THEN [set |-> TRUE, spawned |-> NumSpawned, stops |-> 0]
                      ELSE @]
  /\ UNCHANGED <<caller, loop, ready, exit_code, dockerd_process_pid,
                 restart_dockerd, killed, procs, watched, params, queue, env, args>>

\* A dockerd process exits, with a status that g_spawn_check_exit_status
\* accepts ("ok") or not ("err").  Its SIGCHLD may interrupt a sleep(10) of
\* the main thread; the child-exit callback itself waits for the loop.
dockerd_exits ==
  /\ pc # "done"
  /\ \E p \in Alive, status \in {"ok", "err"}, wake \in BOOLEAN :
       /\ procs' = [procs EXCEPT ![p] = [st |-> "zombie", status |-> status]]
       /\ pc' = IF pc = "sleep" /\ wake THEN "after_sleep" ELSE pc
       /\ h' = IF pc = "sleep" /\ p = dockerd_process_pid
               THEN [h EXCEPT !.exitedInWait = TRUE]
               ELSE h
  /\ UNCHANGED <<caller, loop, is_running, ready, exit_code, dockerd_process_pid,
                 restart_dockerd, killed, watched, params, queue, env, args>>

\* The child watch collects the exit status of a watched process (waitpid)
\* before its callback is dispatched.
child_watch_reaps ==
  /\ pc # "done"
  /\ \E p \in watched :
       /\ procs[p].st = "zombie"
       /\ procs' = [procs EXCEPT ![p].st = "reaped"]
  /\ UNCHANGED <<pc, caller, loop, is_running, ready, exit_code, dockerd_process_pid,
                 restart_dockerd, killed, watched, params, queue, env, args, h>>

\* One of the three parameters is written while its callback is registered
\* and the loop has not ended: the store queues one notification.
parameter_written ==
  /\ pc \notin {"setup_axparameter", "end", "done"}
  /\ caller # "main"
  /\ h.nChanges < MaxChanges
  /\ \E name \in ParamNames, value \in {"yes", "no"} :
       /\ value # params[name]
       /\ params' = [params EXCEPT ![name] = value]
       /\ queue' = queue + 1
  /\ h' = [h EXCEPT !.nChanges = @ + 1]
  /\ UNCHANGED <<pc, caller, loop, is_running, ready, exit_code, dockerd_process_pid,
                 restart_dockerd, killed, procs, watched, env, args>>

Next ==
  \/ main_setup_axparameter
  \/ main_loop_new
  \/ main_start
  \/ main_loop_run
  \/ loop_check
  \/ loop_dispatch
  \/ loop_dispatch_done
  \/ main_loop_exit
  \/ dockerd_process_exited_callback
  \/ parameter_changed_callback
  \/ parameter_changed_callback_return
  \/ stop_dockerd
  \/ stop_dockerd_sleep_timeout
  \/ stop_dockerd_after_sleep
  \/ main_end
  \/ main_return
  \/ handle_signals
  \/ dockerd_exits
  \/ child_watch_reaps
  \/ parameter_written

Spec == Init /\ [][Next]_vars

\* The steps of the main thread.  The thread is never descheduled for good:
\* whenever it can take a step it eventually does.  Nothing is assumed of
\* the signals, the daemon or the parameter store.
MainThread ==
  \/ main_setup_axparameter
  \/ main_loop_new
  \/ main_start
  \/ main_loop_run
  \/ loop_check
  \/ loop_dispatch
  \/ loop_dispatch_done
  \/ main_loop_exit
  \/ dockerd_process_exited_callback
  \/ parameter_changed_callback
  \/ parameter_changed_callback_return
  \/ stop_dockerd
  \/ stop_dockerd_sleep_timeout
  \/ stop_dockerd_after_sleep
  \/ main_end
  \/ main_return

FairSpec == Spec /\ WF_vars(MainThread)

\* The start of the program alone, on every file system and every
\* valuation of the parameters: main up to the first start of dockerd, and
\* the way to the end label when the start fails.
SettingsInit == InitIn(Envs)

SettingsNext ==
  \/ main_setup_axparameter
  \/ main_loop_new
  \/ main_start
  \/ main_end
  \/ stop_dockerd
  \/ stop_dockerd_sleep_timeout
  \/ stop_dockerd_after_sleep
  \/ main_return

SettingsSpec == SettingsInit /\ [][SettingsNext]_vars

TypeOK ==
  /\ pc \in {"setup_axparameter", "loop_new", "start", "loop_run", "poll",
             "dispatch", "exit_cb", "param_cb", "stop_dockerd", "sleep",
             "after_sleep", "stop_ret", "end", "done"}
  /\ caller \in {"none", "param", "main"}
  /\ loop \in {"NULL", "created"}
  /\ is_running \in BOOLEAN
  /\ ready \subseteq {"child", "param"}
  /\ exit_code \in {0, -1}
  /\ dockerd_process_pid \in Pids \cup {NoPid}
  /\ restart_dockerd \in BOOLEAN
  /\ killed \in BOOLEAN
  /\ watched \subseteq Pids
  /\ queue \in 0..MaxChanges


(***************************************************************************)
(* Properties.                                                             *)
(***************************************************************************)

Range(a) == {a[i] : i \in 1..Len(a)}

\* The step is a step of the main thread out of position at.
Leaves(at) == pc = at /\ pc' # at

\* C1: at most one dockerd process is live at any instant, and a live
\* process is the one whose pid is tracked: a new daemon is spawned only
\* once the previous one has exited.
C1_OneDaemonAtATime ==
  /\ Cardinality(Alive) <= 1
  /\ \A p \in Alive : p = dockerd_process_pid

\* A relaunched daemon is live and its predecessor has been reaped.
C1_Witness ==
  /\ NumSpawned >= 2
  /\ procs[1].st = "reaped"
  /\ Alive = {2}


\* The step is the child-exit callback consuming a pending restart.
RestartStep == Leaves("exit_cb") /\ restart_dockerd

TlsFlags == {"--tlsverify", "--tlscacert", "--tlscert", "--tlskey"}

\* C2 as stated: every parameter change handled on a running daemon is
\* followed by one relaunch built from the new values, so the child-exit
\* callback that finds the restart pending always gets to launch a daemon.
C2_Original ==
  [][RestartStep => h'.lastStart # "settings_failed"]_vars

\* C2 as amended: each parameter-changed callback sets the restart flag and
\* calls stop_dockerd once, whose first signal to the tracked daemon is one
\* SIGTERM; only the child-exit callback consumes the flag, and it then
\* makes one relaunch attempt: when the stored values resolve, one
\* g_spawn_async whose arguments reflect them (UseTLS yes: port 2376 and
\* the TLS flags; no: port 2375), and when they do not resolve, no launch,
\* a failure exit code and the end of the loop.
C2_OneStopOneRelaunchAttempt ==
  [][/\ Leaves("param_cb") =>
          /\ restart_dockerd'
          /\ pc' = "stop_dockerd"
          /\ caller' = "param"
          /\ NumSpawned' = NumSpawned
     /\ (Leaves("stop_dockerd") /\ dockerd_process_pid # NoPid) =>
          /\ Len(h'.stopLog) = 1
          /\ h'.stopLog[1].sig = "SIGTERM"
     /\ (restart_dockerd /\ ~restart_dockerd') => pc = "exit_cb"
     /\ (Leaves("exit_cb") /\ ~restart_dockerd) => NumSpawned' = NumSpawned
     /\ RestartStep =>
          /\ ~restart_dockerd'
          /\ IF h'.lastStart = "settings_failed"
             THEN /\ NumSpawned' = NumSpawned
                  /\ args' = args
                  /\ exit_code' = -1
                  /\ ~is_running'
             ELSE /\ NumSpawned' = IF h'.lastStart = "spawn_failed"
                                   THEN NumSpawned ELSE NumSpawned + 1
                  /\ IF params["UseTLS"] = "yes"
                     THEN /\ "tcp://0.0.0.0:2376" \in Range(args')
                          /\ TlsFlags \subseteq Range(args')
                          /\ "tcp://0.0.0.0:2375" \notin Range(args')
                     ELSE /\ "tcp://0.0.0.0:2375" \in Range(args')
                          /\ "tcp://0.0.0.0:2376" \notin Range(args')
                          /\ TlsFlags \cap Range(args') = {}
                  /\ ("--data-root" \in Range(args')) <=> (params["SDCardSupport"] = "yes")
                  /\ ("unix:///var/run/docker.sock" \in Range(args'))
                       <=> (params["IPCSocket"] = "yes")
    ]_vars

\* After one parameter write the relaunched daemon runs in TLS mode.
C2_Witness ==
  /\ h.nChanges = 1
  /\ params["UseTLS"] = "yes"
  /\ NumSpawned = 2
  /\ Alive = {2}
  /\ h.lastStart = "alive"
  /\ "tcp://0.0.0.0:2376" \in Range(args)

\* C3: once the child-exit callback has handled an abnormal exit with no
\* restart pending, no daemon is launched any more, the exit code is
\* non-zero, the loop has been told to quit, and main returns.
C3_CrashEndsSupervision ==
  /\ [](h.crashMark.set =>
          /\ NumSpawned = h.crashMark.spawned
          /\ exit_code # 0
          /\ ~is_running)
  /\ (h.crashMark.set ~> (pc = "done" /\ exit_code # 0))

\* The program has returned after a crash of its only daemon.
C3_Witness ==
  /\ h.crashMark.set
  /\ pc = "done"
  /\ NumSpawned = 1
  /\ ~h.sigReceived

\* C4 as stated: after a termination signal that arrives during the wait of
\* a stop_dockerd called by the parameter-changed callback, no further
\* stop sequence signals the daemon, no daemon is launched, and the exit
\* code is 0 when no daemon exited abnormally.
C4_Original ==
  h.sigMark.set =>
    /\ h.sigMark.stops = 0
    /\ NumSpawned = h.sigMark.spawned
    /\ (pc = "done" /\ \A p \in Pids : procs[p].status # "err") => exit_code = 0


\* C5 as stated: a termination signal received at any point after
\* init_signals, also before the loop exists or runs, eventually makes the
\* loop exit and main return.
C5_Original == h.sigReceived ~> (pc = "done")

\* The run ended with every start and restart having succeeded and no
\* abnormal exit left without a restart.
EveryStartSucceeded == h.lastStart = "alive" /\ ~h.crashMark.set

\* C6 as stated: the exit code is 0 when the program ends after a
\* termination signal with every start and restart having succeeded, and
\* non-zero when it ends after a failed setup or start or after an abnormal
\* daemon exit with no restart.
C6_Original ==
  pc = "done" =>
    /\ (h.sigReceived /\ EveryStartSucceeded) => exit_code = 0
    /\ ~EveryStartSucceeded => exit_code # 0

\* C6 as amended: the exit code is 0 exactly when the run recorded no
\* failure: no failed setup, no failed start or restart, no abnormal exit
\* status seen by the child-exit callback (restart or not) and no failed
\* stop_dockerd in the parameter-changed callback.
C6_ExitCodeTellsFailure ==
  /\ (exit_code # 0) <=> h.failed
  /\ (pc = "done" /\ ~EveryStartSucceeded) => exit_code # 0

\* A shutdown by signal, after a restart, that returns 0.
C6_Witness ==
  /\ pc = "done"
  /\ h.sigReceived
  /\ NumSpawned = 2
  /\ EveryStartSucceeded
  /\ exit_code = 0

\* C7: stop_dockerd with no pid tracked returns success at once, without a
\* signal and without the sleep, and leaves the tracked pid, the restart
\* flag, the exit code and the processes as they are; so a second such call
\* finds the state of the first.
C7_StopWithoutPid ==
  [][(Leaves("stop_dockerd") /\ dockerd_process_pid = NoPid) =>
       /\ killed'
       /\ pc' = "stop_ret"
       /\ h'.stopLog = <<>>
       /\ h'.sigMark = h.sigMark
       /\ UNCHANGED <<dockerd_process_pid, restart_dockerd, exit_code, procs,
                      caller, is_running>>
    ]_vars

\* The final stop of main returns after the parameter-changed callback has
\* already called stop_dockerd with no pid tracked.
C7_Witness ==
  /\ pc = "stop_ret"
  /\ caller = "main"
  /\ killed
  /\ dockerd_process_pid = NoPid
  /\ restart_dockerd
  /\ h.stopLog = <<>>

\* UseTLS is yes and a certificate file is absent.
BadTls == params["UseTLS"] = "yes" /\ ~(CertNames \subseteq env.certs)

\* SDCardSupport is yes and the SD card is vfat or exfat.
BadSdCard == params["SDCardSupport"] = "yes" /\ env.fs \in {"vfat", "exfat"}

\* The step is a call of read_settings_and_start_dockerd.
StartStep == Leaves("start") \/ RestartStep

\* C8: with UseTLS yes and any certificate file absent, or SDCardSupport
\* yes and a vfat or exfat card, whatever the other parameters and files,
\* read_settings fails: no process is spawned, no argument vector is
\* built, and the start attempt records a failure.
C8_NoPartialSettings ==
  [][(BadTls \/ BadSdCard) =>
       /\ NumSpawned' = NumSpawned
       /\ StartStep =>
            /\ h'.lastStart = "settings_failed"
            /\ args' = args
            /\ dockerd_process_pid' = NoPid
            /\ exit_code' = -1
    ]_vars

\* A start refused for the server key alone, with the SD card in order.
C8_Witness ==
  /\ params["UseTLS"] = "yes"
  /\ env.certs = CertNames \ {"server-key.pem"}
  /\ params["SDCardSupport"] = "yes"
  /\ env.fs = "ext4"
  /\ h.lastStart = "settings_failed"
  /\ NumSpawned = 0

\* The argument vector a has the shape the settings snapshot s asks for.
ArgsShape(a, s) ==
  LET bindEnd == IF s.use_tls THEN 12 ELSE 6
      rootEnd == IF s.data_root # "NULL" THEN bindEnd + 2 ELSE bindEnd
      sockEnd == IF s.use_ipc_socket THEN rootEnd + 2 ELSE rootEnd
  IN /\ Len(a) = sockEnd
     /\ a[1] = "dockerd"
     /\ a[2] = "--config-file"
     /\ a[3] = "/usr/local/packages/dockerdwrapperwithcompose/localdata/daemon.json"
     /\ a[4] = "-H"
     /\ IF s.use_tls
        THEN /\ a[5] = "tcp://0.0.0.0:2376"
             /\ a[6] = "--tlsverify"
             /\ a[7] = "--tlscacert"
             /\ a[8] = "/usr/local/packages/dockerdwrapperwithcompose/ca.pem"
             /\ a[9] = "--tlscert"
             /\ a[10] = "/usr/local/packages/dockerdwrapperwithcompose/server-cert.pem"
             /\ a[11] = "--tlskey"
             /\ a[12] = "/usr/local/packages/dockerdwrapperwithcompose/server-key.pem"
             /\ Range(a) \cap {"tcp://0.0.0.0:2375", "--tls=false"} = {}
        ELSE /\ a[5] = "tcp://0.0.0.0:2375"
             /\ a[6] = "--tls=false"
             /\ Range(a) \cap ({"tcp://0.0.0.0:2376"} \cup TlsFlags) = {}
     /\ IF s.data_root # "NULL"
        THEN /\ a[bindEnd + 1] = "--data-root"
             /\ a[bindEnd + 2] = s.data_root
        ELSE "--data-root" \notin Range(a)
     /\ IF s.use_ipc_socket
        THEN /\ a[rootEnd + 1] = "-H"
             /\ a[rootEnd + 2] = "unix:///var/run/docker.sock"
        ELSE "unix:///var/run/docker.sock" \notin Range(a)

\* C9: the argument vector of every g_spawn_async call is the one the
\* settings snapshot determines: base command and config file first, then
\* the 2376 bind address with the four TLS flags exactly when use_tls and
\* the 2375 one with --tls=false otherwise, then --data-root and its path
\* exactly when data_root is set, then the unix socket exactly when
\* use_ipc_socket.
C9_ArgsFromSettings ==
  [][(StartStep /\ h'.lastStart # "settings_failed") =>
       ArgsShape(args', read_settings.settings)
    ]_vars

\* A daemon started with TLS, the SD card and the IPC socket.
C9_Witness ==
  /\ h.lastStart = "alive"
  /\ Len(args) = 16
  /\ args[14] = "/var/spool/storage/SD_DISK/dockerd/data"

\* C10 as stated: in a stop_dockerd call that found a pid tracked, SIGKILL
\* is sent only after SIGTERM and the full sleep; and when the daemon exits
\* during the sleep, the call sees the pid cleared, returns success and
\* sends no SIGKILL.
C10_Original ==
  (pc = "stop_ret" /\ h.stopLog # <<>>) =>
    /\ (\E i \in 1..Len(h.stopLog) : h.stopLog[i].sig = "SIGKILL") =>
         (h.timedOut /\ h.stopLog[1].sig = "SIGTERM")
    /\ h.exitedInWait =>
         /\ dockerd_process_pid = NoPid
         /\ killed
         /\ \A i \in 1..Len(h.stopLog) : h.stopLog[i].sig # "SIGKILL"

\* The step is the return of stop_dockerd to the parameter-changed callback.
ParamStopReturns == Leaves("stop_ret") /\ caller = "param"

\* C11 as stated: when the stop_dockerd called by the parameter-changed
\* callback fails, the callback records a failure exit code and asks the
\* loop to quit.
C11_Original ==
  [][(ParamStopReturns /\ ~killed) => (exit_code' # 0 /\ ~is_running')]_vars

\* A signal of the current stop_dockerd call was not delivered; in the
\* model kill fails only on a process that has exited and been reaped.
SendFailed == \E i \in 1..Len(h.stopLog) : ~h.stopLog[i].ok

\* C12 as stated: a stop_dockerd whose signal could not be sent because the
\* daemon had already exited returns success, and its caller records no
\* failure exit code for it.
C12_Original ==
  [][(Leaves("stop_ret") /\ SendFailed) => (killed /\ exit_code' = exit_code)]_vars

\* C13 as stated: restart logic runs once for every stop a parameter change
\* initiated, so when the program has ended no such stop is left with its
\* restart flag still set.
C13_Original == pc = "done" => ~restart_dockerd

\* C13 as amended: the restart flag is set only by the parameter-changed
\* callback and cleared only by the child-exit callback; restart logic
\* (read_settings, then g_spawn_async) runs nowhere else after the initial
\* start, not at all in a child-exit callback that finds the flag clear, and
\* exactly once in one that finds it set, however many changes set it.
C13_RestartOncePerHandledExit ==
  [][/\ (restart_dockerd /\ ~restart_dockerd') => Leaves("exit_cb")
     /\ (~restart_dockerd /\ restart_dockerd') => Leaves("param_cb")
     /\ (NumSpawned' # NumSpawned \/ h'.lastStart # h.lastStart \/ args' # args)
          => StartStep
     /\ (Leaves("exit_cb") /\ ~restart_dockerd) =>
          /\ NumSpawned' = NumSpawned
          /\ h'.lastStart = h.lastStart
          /\ args' = args
     /\ RestartStep =>
          /\ ~restart_dockerd'
          /\ h'.lastStart \in {"settings_failed"} \cup StartOutcomes
          /\ NumSpawned' =
               IF h'.lastStart \in {"alive", "died"} THEN NumSpawned + 1 ELSE NumSpawned
    ]_vars

\* Two parameter changes were handled before the daemon's exit, and one
\* restart followed: the second daemon runs, no third was spawned.
C13_Witness ==
  /\ pc = "poll"
  /\ is_running
  /\ h.nChanges = 2
  /\ queue = 0
  /\ ~restart_dockerd
  /\ NumSpawned = 2
  /\ Alive = {2}
  /\ h.lastStart = "alive"

\* C14 as stated: once a termination signal has been handled, no step
\* spawns a dockerd process.
C14_Original == [][h.sigReceived => NumSpawned' = NumSpawned]_vars

\* A start attempt that did not leave a daemon running.
FailedStarts == {"settings_failed", "spawn_failed", "died"}

\* C19 as stated: after a launch attempt that failed in g_spawn_async or in
\* the liveness probe, no pid is tracked.
C19_Original ==
  h.lastStart \in {"spawn_failed", "died"} => dockerd_process_pid = NoPid

\* The step is g_main_loop_run returning to main.
LoopExits == Leaves("poll") /\ pc' = "end"

\* C15 as stated: the loop exits only after a termination signal with no
\* daemon process running any more, or with a failure recorded.
C15_Original ==
  [][LoopExits => ((h.sigReceived /\ Alive = {}) \/ exit_code # 0)]_vars

\* C15 as amended: the loop exits only after a request to quit, made by the
\* termination-signal handler (the daemon may still run and is stopped by
\* the final stop_dockerd), by a child-exit callback with no restart
\* pending (no daemon runs and none is tracked), or by a failed start or
\* restart (a failure exit code is recorded).
C15_LoopExitsOnRequest ==
  [][LoopExits =>
       /\ ~is_running
       /\ \/ h.sigReceived
          \/ dockerd_process_pid = NoPid /\ Alive = {}
          \/ exit_code # 0 /\ h.lastStart \in FailedStarts
    ]_vars

\* The loop has exited after a normal exit of the daemon: no signal, no
\* failure, nothing tracked.
C15_Witness ==
  /\ pc = "end"
  /\ h.lastStart = "alive"
  /\ ~h.sigReceived
  /\ exit_code = 0
  /\ dockerd_process_pid = NoPid

\* C16: once read_settings or the launch has failed, at the initial start
\* or in a restart, the exit code is a failure and stays one, the loop does
\* not run, no further start is attempted, and main returns.
C16_StartFailureIsFatal ==
  /\ [](h.lastStart \in FailedStarts => (exit_code # 0 /\ ~is_running))
  /\ [][h.lastStart \in FailedStarts =>
          (NumSpawned' = NumSpawned /\ h'.lastStart = h.lastStart /\ args' = args)]_vars
  /\ (h.lastStart \in FailedStarts ~> (pc = "done" /\ exit_code # 0))

\* The program has returned after a restart whose g_spawn_async failed.
C16_Witness ==
  /\ pc = "done"
  /\ h.lastStart = "spawn_failed"
  /\ NumSpawned = 1
  /\ procs[1].st = "reaped"
  /\ exit_code = -1

\* C17: a child-exit callback that handles an exit status failing
\* g_spawn_check_exit_status leaves a failure exit code, with the restart
\* flag set or clear; one that handles a passing status leaves the exit
\* code as it was, unless the restart it performs fails.
C17_AbnormalExitRecorded ==
  [][Leaves("exit_cb") =>
       \A p \in watched \ watched' :
         /\ procs[p].status = "err" => exit_code' = -1
         /\ (procs[p].status # "err" /\ ~(restart_dockerd /\ h'.lastStart \in FailedStarts))
              => exit_code' = exit_code
    ]_vars

\* An abnormal exit has just been handled with no restart pending, and the
\* callback has returned to the loop with a failure exit code.
C17_Witness ==
  /\ pc = "dispatch"
  /\ h.crashMark.set
  /\ exit_code = -1
  /\ dockerd_process_pid = NoPid
  /\ ~restart_dockerd
  /\ ~h.sigReceived

\* The positions of the main thread inside stop_dockerd.
InStop == {"stop_dockerd", "sleep", "after_sleep", "stop_ret"}

\* C18: main reaches its end label from the failed setup of the parameter
\* handle, from the failed initial start or from the return of
\* g_main_loop_run, and nowhere else; from there it calls stop_dockerd
\* once, stays in that call until it returns, and then returns the exit
\* code, which the final stop does not change.
C18_FinalStopOnce ==
  [][/\ (pc' = "end" /\ pc # "end") => pc \in {"setup_axparameter", "start", "poll"}
     /\ Leaves("end") => (pc' = "stop_dockerd" /\ caller' = "main")
     /\ (caller' = "main" /\ caller # "main") => pc = "end"
     /\ caller = "main" =>
          /\ caller' = "main"
          /\ pc \in InStop
          /\ pc' \in InStop \cup {"done"}
          /\ pc' = "stop_dockerd" => pc = "stop_dockerd"
          /\ exit_code' = exit_code
     /\ (pc' = "done" /\ pc # "done") => (pc = "stop_ret" /\ caller = "main")
    ]_vars

\* main has returned by the path of a failed setup of the parameter handle,
\* its final stop_dockerd having found nothing to stop.
C18_Witness ==
  /\ pc = "done"
  /\ caller = "main"
  /\ loop = "NULL"
  /\ h.lastStart = "none"
  /\ killed
  /\ exit_code = -1

\* The loop is idle: g_main_loop_run is waiting for a source, no callback
\* is executing and no quit has been requested.
LoopIdle == pc = "poll" /\ is_running

\* C20: while the loop is idle a pid is tracked, and it is the pid of a
\* spawned process whose child watch has not been dispatched yet: a daemon
\* still running, or one whose exit is pending.
C20_IdleLoopTracksDaemon ==
  LoopIdle =>
    /\ dockerd_process_pid # NoPid
    /\ dockerd_process_pid \in watched
    /\ procs[dockerd_process_pid].st # "unborn"
    /\ h.lastStart = "alive"

\* The loop is idle again after a restart: the second daemon is tracked.
C20_Witness ==
  /\ LoopIdle
  /\ dockerd_process_pid = 2
  /\ procs[1].st = "reaped"
  /\ procs[2].st = "alive"
  /\ ReadySources = {}

\* C21: every step leaves the exit code as it was or sets it to -1, a step
\* that records a failure sets it to -1, and once it is -1 no step changes
\* it: not a successful restart, not a successful stop; so main returns a
\* non-zero value whenever a failure was recorded.
C21_ExitCodeMonotone ==
  [][/\ exit_code' \in {exit_code, -1}
     /\ exit_code # 0 => exit_code' = exit_code
     /\ (h'.failed /\ ~h.failed) => exit_code' = -1
     /\ (pc' = "done" /\ h'.failed) => exit_code' # 0
    ]_vars

\* main has returned -1 after an earlier failure that was followed by a
\* successful restart and a successful final stop.
C21_Witness ==
  /\ pc = "done"
  /\ exit_code = -1
  /\ h.lastStart = "alive"
  /\ NumSpawned = 2
  /\ ~h.crashMark.set
  /\ killed

====
